---- MODULE Spec2Model ----
(***************************************************************************)
(* Sweepstakes entry pipeline (submitHGTVEntry / submitFoodNetworkEntry)   *)
(* and the submission ledger (checkRateLimit / saveSubmissionRecord).      *)
(*                                                                         *)
(* Time is counted in hours since the epoch.  A run is one invocation of   *)
(* submitHGTVEntry or submitFoodNetworkEntry; runs of one Node process     *)
(* interleave at their awaits.  checkRateLimit and saveSubmissionRecord    *)
(* contain no await, so each executes as one step.                         *)
(***************************************************************************)
EXTENDS Integers, Sequences, FiniteSets, TLC

\* ------------------------------------------------------------------ bounds
MaxRuns == 2
MaxTime == 24
ClockStep == 12
MaxLedgerLen == 2
MaxLongLen == 100
\* The 500 ms sleeps that fit in the timeout of waitForIframe (60 in the code).
MaxPolls == 2
\* The fields one step fills in the calls taken alone.
MaxFields == 2

\* ------------------------------------------------------- program constants
HoursPerDay == 24
\* America/New_York is UTC-5 (standard time); daylight time is not modelled.
ETOffset == 5
\* "Keep only last 100 submissions"
MaxSubmissions == 100
\* setTimeout(resolve, 60000) of handleCaptcha
CaptchaWaitMs == 60000
\* The time clickButton is told to wait after the click of '#xCheckUser', of
\* '.xActionNext' and of '.xSubmit'.
CheckUserWaitMs == 3000
\* The pause of fillFormField after a field was filled.
ValidationDelayMs == 300
NextWaitMs == 2000
SubmitWaitMs == 5000

Sites == {"hgtv", "foodnetwork"}
Runs == 1..MaxRuns

VARIABLES
    now,        \* Date.now(), in hours
    file,       \* data/submissions.json: "missing", "valid" or "corrupt"
    ledger,     \* the parsed content of the file when it is valid
    runs,       \* per invocation: the position and the locals of the run
    res         \* the stand-alone call made under SpecLedger, with its inputs

vars == <<now, file, ledger, runs, res>>

\* ------------------------------------------------------------ date helpers
\* new Date().toISOString(): the UTC calendar fields of an instant.
toISOString(t) == [date |-> t \div HoursPerDay, hour |-> t % HoursPerDay]

\* new Date(isoString): back to the instant.
parseDate(iso) == iso.date * HoursPerDay + iso.hour

\* The calendar date taken in UTC.
getETDate_utc(t) == t \div HoursPerDay

\* toLocaleString('en-US', {timeZone: 'America/New_York', year, month, day}):
\* the calendar date in Eastern time, as a day number.
getETDate(t) == (t - ETOffset) \div HoursPerDay

\* ------------------------------------------------------------------ ledger
SubmissionRecord(s, ok, err, t) ==
    [site |-> s, success |-> ok, error |-> err, timestamp |-> toISOString(t)]

\* submissions.filter(s => s.site === site && s.success)
successesOf(seq, s) == SelectSeq(seq, LAMBDA x : x.site = s /\ x.success)

\* No sort: [0] is the first success stored.
mostRecent_first(seq) == seq[1]

\* The sort ascending instead of descending: [0] is the oldest entry.
mostRecent_oldest(seq) ==
    LET i == CHOOSE k \in 1..Len(seq) :
                 /\ \A j \in 1..Len(seq) :
                        parseDate(seq[j].timestamp) >= parseDate(seq[k].timestamp)
                 /\ \A j \in 1..(k - 1) :
                        parseDate(seq[j].timestamp) > parseDate(seq[k].timestamp)
    IN  seq[i]

\* .sort((a, b) => new Date(b.timestamp) - new Date(a.timestamp))[0] on a
\* non-empty array: the sort is stable, so element 0 is the earliest entry of
\* the array among those with the greatest timestamp.
mostRecent(seq) ==
    LET i == CHOOSE k \in 1..Len(seq) :
                 /\ \A j \in 1..Len(seq) :
                        parseDate(seq[j].timestamp) <= parseDate(seq[k].timestamp)
                 /\ \A j \in 1..(k - 1) :
                        parseDate(seq[j].timestamp) < parseDate(seq[k].timestamp)
    IN  seq[i]

\* The try block of checkRateLimit: "true", "false", or "throw" when
\* readFileSync, JSON.parse or the array methods throw.
rateLimitBody(f, led, s, t, readOk) ==
    IF f = "missing" THEN "true"
    ELSE IF ~readOk \/ f = "corrupt" THEN "throw"
    ELSE LET wins == successesOf(led, s)
         IN  IF Len(wins) = 0 THEN "true"
             ELSE IF getETDate(parseDate(mostRecent(wins).timestamp)) = getETDate(t)
                  THEN "false"
                  ELSE "true"

\* checkRateLimit with a catch that denies.
checkRateLimit_failClosed(f, led, s, t, readOk) ==
    rateLimitBody(f, led, s, t, readOk) = "true"

\* checkRateLimit(site): the catch block returns true ("Allow on error").
checkRateLimit(f, led, s, t, readOk) ==
    LET b == rateLimitBody(f, led, s, t, readOk)
    IN  IF b = "throw" THEN TRUE ELSE b = "true"

\* submissions.slice(-n)
sliceLast(seq, n) ==
    IF Len(seq) <= n THEN seq ELSE SubSeq(seq, Len(seq) - n + 1, Len(seq))

\* Outcomes of writeFileSync: written; the open fails and the file is left as
\* it was; or the write fails after the file was truncated.
WriteOutcomes == {"ok", "openFails", "partial"}

\* saveSubmissionRecord keeping the first 100 entries instead of the last.
saveSubmissionRecord_keepFirst(f, led, s, ok, err, t, readOk, w) ==
    LET submissions == IF f = "missing" THEN <<>> ELSE led
        pushed == Append(submissions, SubmissionRecord(s, ok, err, t))
        kept == IF Len(pushed) > MaxSubmissions
                THEN SubSeq(pushed, 1, MaxSubmissions)
                ELSE pushed
    IN  IF f # "missing" /\ (~readOk \/ f = "corrupt")
        THEN [file |-> f, ledger |-> led, wrote |-> FALSE]
        ELSE CASE w = "ok" -> [file |-> "valid", ledger |-> kept, wrote |-> TRUE]
               [] w = "openFails" -> [file |-> f, ledger |-> led, wrote |-> FALSE]
               [] OTHER -> [file |-> "corrupt", ledger |-> <<>>, wrote |-> FALSE]

\* saveSubmissionRecord(site, success, error): the new content of the file.
\* Every exception is caught and logged; wrote tells whether the document
\* was written.
saveSubmissionRecord(f, led, s, ok, err, t, readOk, w) ==
    LET submissions == IF f = "missing" THEN <<>> ELSE led
        pushed == Append(submissions, SubmissionRecord(s, ok, err, t))
        kept == IF Len(pushed) > MaxSubmissions
                THEN sliceLast(pushed, MaxSubmissions)
                ELSE pushed
    IN  IF f # "missing" /\ (~readOk \/ f = "corrupt")
        THEN [file |-> f, ledger |-> led, wrote |-> FALSE]
        ELSE CASE w = "ok" -> [file |-> "valid", ledger |-> kept, wrote |-> TRUE]
               [] w = "openFails" -> [file |-> f, ledger |-> led, wrote |-> FALSE]
               [] OTHER -> [file |-> "corrupt", ledger |-> <<>>, wrote |-> FALSE]

\* success ? null : 'See logs for details'
errorOf(ok) == IF ok THEN "null" ELSE "See logs for details"

\* error.message of the exception a stage ended with, as the catch blocks
\* log it.  The locate message is the one of the repository; the others are
\* raised by the browser driver and stand for its texts.
errorMessage(stg) ==
    CASE stg = "locate" -> "Could not find Wayin URL (data-src) for direct navigation"
      [] stg = "launch" -> "Failed to launch the browser process"
      [] stg = "navigate" -> "Navigation timeout exceeded"
      [] stg = "fallback" -> "net::ERR_NAME_NOT_RESOLVED"
      [] stg = "email" -> "Waiting for selector #xCheckUser failed"
      [] stg = "submit" -> "Waiting for selector .xSubmit failed"
      [] OTHER -> "null"

\* --------------------------------------------------------------- challenge
\* handleCaptcha with the solver branch reporting the challenge as solved.
handleCaptcha_solverSolves(detectOk, captchaExists, solverApiKey) ==
    IF ~detectOk THEN FALSE
    ELSE IF ~captchaExists THEN TRUE
    ELSE IF solverApiKey THEN TRUE
    ELSE TRUE

\* handleCaptcha(page, frame): detectOk is false when frame.$ throws.
handleCaptcha(detectOk, captchaExists, solverApiKey) ==
    IF ~detectOk THEN FALSE
    ELSE IF ~captchaExists THEN TRUE
    ELSE IF solverApiKey THEN FALSE
    ELSE TRUE

\* The milliseconds handleCaptcha spends in setTimeout: the wait for the
\* operator, on the branch with a marker and no solver key.
handleCaptchaWait(detectOk, captchaExists, solverApiKey) ==
    IF detectOk /\ captchaExists /\ ~solverApiKey THEN CaptchaWaitMs ELSE 0

\* The number of times handleCaptcha queries the frame for the marker:
\* frame.$ is its first statement, and no branch calls it again.
handleCaptchaQueries(detectOk, captchaExists, solverApiKey) == 1

\* ---------------------------------------------------------------- pipeline
\* The locals and the position of one invocation, with what it did so far.
IdleRun ==
    [pc |-> "idle", site |-> "hgtv", dryRun |-> FALSE,
     browser |-> "none",        \* undefined / "open" / "closed" (close() was called)
     success |-> FALSE,         \* let success = false
     completion |-> "normal",   \* how the try statement completes: normal, return, throw
     session |-> "none",        \* iframe: a frame of the page, or its main frame
     polls |-> 0,               \* waitForIframe: the 500 ms sleeps of its loop so far
     rate |-> "none",           \* skipped (dry run), allowed, denied
     threw |-> "none",          \* the stage whose exception reached the outer catch
     captchaSolved |-> "none",  \* what handleCaptcha returned
     submit |-> "none",         \* the submit step: clicked, failed (caught by the inner try)
     submitClicked |-> FALSE,   \* frame.click('.xSubmit') or the JS click was issued
     confirmation |-> "none",   \* the page text after the submit: keyword, unclear
     saved |-> "none",          \* saveSubmissionRecord: not called, written, lost
     result |-> "none",         \* what the call settled to: true, false, rejected
     endedAt |-> 0]             \* the instant the call settled

At(r, p) == runs[r].pc = p

\* "if (!dryRun && !(await checkRateLimit(site))) return false" with the
\* denied run recorded as a failure.
rateGate_recordsDenied(dry, allowed) ==
    IF ~dry /\ ~allowed THEN "finallySave" ELSE "launch"

\* if (!dryRun && !(await checkRateLimit(site))) return false;
\* the position the run continues at.
rateGate(dry, allowed) ==
    IF ~dry /\ ~allowed THEN "done" ELSE "launch"

\* submitHGTVEntry(dryRun) / submitFoodNetworkEntry(dryRun) up to the first
\* await: the rate check.  Runs are numbered in the order they are invoked.
Invoke(r, s, d) ==
    /\ At(r, "idle")
    /\ \A q \in Runs : q < r => runs[q].pc # "idle"
    /\ \E readOk \in BOOLEAN :
         LET allowed == d \/ checkRateLimit(file, ledger, s, now, readOk)
             next == rateGate(d, allowed)
         IN  runs' = [runs EXCEPT ![r] =
                 [@ EXCEPT !.pc = next,
                           !.site = s,
                           !.dryRun = d,
                           !.rate = IF d THEN "skipped"
                                    ELSE IF allowed THEN "allowed" ELSE "denied",
                           !.result = IF next = "done" THEN "false" ELSE "none",
                           !.endedAt = IF next = "done" THEN now ELSE 0]]
    /\ UNCHANGED <<now, file, ledger, res>>

\* A stage of the outer try block: it resolves and the run goes on to
\* `next`, or it throws and the run goes to the outer catch.
stage(run, next, ok) ==
    IF ok THEN [run EXCEPT !.pc = next]
    ELSE [run EXCEPT !.pc = "catch", !.threw = run.pc, !.completion = "throw"]

\* browser = await puppeteer.launch(launchOptions)
Launch(r) ==
    \E ok \in BOOLEAN :
        /\ At(r, "launch")
        /\ runs' = [runs EXCEPT ![r] =
               IF ok THEN [@ EXCEPT !.pc = "navigate", !.browser = "open"]
               ELSE stage(@, "navigate", FALSE)]
        /\ UNCHANGED <<now, file, ledger, res>>

\* browser.newPage(), page.goto(url), the landing screenshot and the
\* optional entry/agree button (its errors are swallowed).
Navigate(r) ==
    \E ok \in BOOLEAN :
        /\ At(r, "navigate")
        /\ runs' = [runs EXCEPT ![r] = stage(@, "locate", ok)]
        /\ UNCHANGED <<now, file, ledger, res>>

\* The loop of waitForIframe with startTime taken inside the loop.
pollAgain_restarts(polls) == IF polls >= 1 THEN 0 ELSE polls + 1

\* await new Promise(resolve => setTimeout(resolve, 500)): the time since
\* startTime after one more sleep.
pollAgain(polls) == polls + 1

\* The negation of the loop condition Date.now() - startTime < timeout.
pollExpired(polls) == polls >= MaxPolls

\* iframe = await waitForIframe(page), one await at a time: the wait for the
\* iframe element, then the loop over page.frames().  A throw (no element,
\* or no frame of the form's domain when the time is up) enters the
\* fallback; the locals of the call are gone when it is left.
Locate(r) ==
    \E elementOk \in BOOLEAN, frameLoaded \in BOOLEAN :
        /\ At(r, "locate")
        /\ runs' = [runs EXCEPT ![r] =
               IF (@.polls = 0 /\ ~elementOk) \/ pollExpired(@.polls)
               THEN [@ EXCEPT !.pc = "fallback", !.polls = 0]
               ELSE IF frameLoaded
               THEN [@ EXCEPT !.pc = "email", !.session = "frame", !.polls = 0]
               ELSE [@ EXCEPT !.polls = pollAgain(@)]]
        /\ UNCHANGED <<now, file, ledger, res>>

\* A text is a sequence of tokens; null is kept apart from the empty text.
Null == [isNull |-> TRUE, text |-> <<>>]
Str(t) == [isNull |-> FALSE, text |-> t]

\* Whether the token holds the needle as a substring, for the tokens of the
\* URLs below and the two needles of waitForIframe.
holds(tok, needle) ==
    CASE needle = "xd.wayin.com" -> tok \in {"xd.wayin.com"}
      [] needle = "wayin.com" -> tok \in {"xd.wayin.com", "wayin.com", "ref=wayin.com"}
      [] OTHER -> FALSE

\* url.includes(needle)
includes(t, needle) == \E i \in 1..Len(t) : holds(t[i], needle)

\* frame.url().includes('xd.wayin.com') || frame.url().includes('wayin.com')
isWayinFrame(t) == includes(t, "xd.wayin.com") \/ includes(t, "wayin.com")

\* frames.find(...): the URL of the first frame that passes the test, null
\* (undefined) when none does.
findFrame(frames) ==
    LET hits == {i \in 1..Len(frames) : isWayinFrame(frames[i])}
    IN  IF hits = {} THEN Null
        ELSE Str(frames[CHOOSE i \in hits : \A j \in hits : i <= j])

\* !value : null and '' are falsy.
falsy(v) == v.isNull \/ v.text = <<>>

\* wayinUrl.startsWith('//')
startsWithSlashes(t) == Len(t) >= 2 /\ t[1] = "/" /\ t[2] = "/"

\* The protocol added as 'http:'.
addProtocol_plainHttp(t) == IF startsWithSlashes(t) THEN <<"http:">> \o t ELSE t

\* if (wayinUrl.startsWith('//')) wayinUrl = 'https:' + wayinUrl
addProtocol(t) == IF startsWithSlashes(t) THEN <<"https:">> \o t ELSE t

\* The URL the fallback settles on: the data-src attribute of the iframe
\* element (dataSrc), or when that is falsy the first group of the match of
\* the page markup (htmlMatch, null without a match).
findWayinUrl(dataSrc, htmlMatch) ==
    IF ~falsy(dataSrc) THEN dataSrc
    ELSE IF ~htmlMatch.isNull THEN htmlMatch
    ELSE dataSrc

\* The catch block of waitForIframe as a whole: the URL page.goto is called
\* with (null when it is not called), the value of iframe after it, and the
\* exception that leaves the block ("none", "locate" for the Error of the
\* repository, "fallback" when a call of the driver rejects: page.evaluate
\* or page.content with pageOk false, page.goto with gotoOk false).
locateFallback(pageOk, dataSrc, htmlMatch, gotoOk) ==
    LET wayinUrl == findWayinUrl(dataSrc, htmlMatch)
    IN  IF ~pageOk
        THEN [goto |-> Null, iframe |-> "none", threw |-> "fallback"]
        ELSE IF falsy(wayinUrl)
        THEN [goto |-> Null, iframe |-> "none", threw |-> "locate"]
        ELSE [goto |-> Str(addProtocol(wayinUrl.text)),
              iframe |-> IF gotoOk THEN "main" ELSE "none",
              threw |-> IF gotoOk THEN "none" ELSE "fallback"]

\* Values of the data-src attribute: no iframe element or no attribute, an
\* empty attribute, a protocol-relative URL, an absolute one, and one that
\* the host page points at another server.
DataSrcValues ==
    {Null, Str(<<>>),
     Str(<<"/", "/", "xd.wayin.com", "/", "a">>),
     Str(<<"https:", "/", "/", "xd.wayin.com", "/", "a">>),
     Str(<<"https:", "/", "/", "cdn.example.net", "/", "a">>)}

\* Results of html.match(/data-src="(\/\/xd\.wayin\.com\/[^"]+)"/): the first
\* group always starts with //xd.wayin.com/.
HtmlMatchValues == {Null, Str(<<"/", "/", "xd.wayin.com", "/", "b">>)}

\* The fallback sending the run back to the primary path.
fallbackNext_retries(threw) == IF threw = "none" THEN "email" ELSE "locate"

\* Where the run goes after the fallback: on to step 1, or to the outer catch.
fallbackNext(threw) == IF threw = "none" THEN "email" ELSE "catch"

\* The catch of waitForIframe: the data-src of the iframe element or of the
\* page markup, then page.goto(wayinUrl) and iframe = page.mainFrame().
Fallback(r) ==
    \E pageOk \in BOOLEAN, dataSrc \in DataSrcValues,
       htmlMatch \in HtmlMatchValues, gotoOk \in BOOLEAN :
        LET out == locateFallback(pageOk, dataSrc, htmlMatch, gotoOk)
        IN  /\ At(r, "fallback")
            /\ runs' = [runs EXCEPT ![r] =
                   IF out.threw = "none"
                   THEN [@ EXCEPT !.pc = fallbackNext(out.threw), !.session = out.iframe]
                   ELSE [@ EXCEPT !.pc = fallbackNext(out.threw), !.threw = out.threw,
                                  !.completion = "throw"]]
            /\ UNCHANGED <<now, file, ledger, res>>

\* Step 1, first statement: fillFormField(email).  It catches its own
\* errors, so the run goes on to the check-user click with the address
\* typed ("checkUser") or with the field left empty ("checkUserNoEmail").
Email(r) ==
    \E filled \in BOOLEAN :
        /\ At(r, "email")
        /\ runs' = [runs EXCEPT ![r] =
               [@ EXCEPT !.pc = IF filled THEN "checkUser" ELSE "checkUserNoEmail"]]
        /\ UNCHANGED <<now, file, ledger, res>>

\* Step 1, second statement: clickButton('#xCheckUser', 3000), whose error
\* reaches the outer catch.
CheckUser(r) ==
    \E ok \in BOOLEAN :
        /\ runs[r].pc \in {"checkUser", "checkUserNoEmail"}
        /\ runs' = [runs EXCEPT ![r] =
               IF ok THEN [@ EXCEPT !.pc = "registration"]
               ELSE [@ EXCEPT !.pc = "catch", !.threw = "email",
                              !.completion = "throw"]]
        /\ UNCHANGED <<now, file, ledger, res>>

\* Steps 2 to 4, each a try statement of its own: the name fields of a new
\* user, the Next button, the trivia screen, the address block.
OptionalSteps == {"registration", "next", "trivia", "address"}

\* The catch block of each of them, which logs one line.
StepCatches == {"registrationCatch", "nextCatch", "triviaCatch", "addressCatch"}

catchOf ==
    [registration |-> "registrationCatch", next |-> "nextCatch",
     trivia |-> "triviaCatch", address |-> "addressCatch"]

\* The statement after each try statement.
afterStep ==
    [registration |-> "next", next |-> "trivia", trivia |-> "address",
     address |-> "captcha",
     registrationCatch |-> "next", nextCatch |-> "trivia",
     triviaCatch |-> "address", addressCatch |-> "captcha"]

\* The optional steps without their try statements: the exception goes to
\* the outer catch.
stepThrows_aborts(step) == "catch"

\* Where the exception of an optional step (a selector wait that times
\* out, a click that fails) is handled: in the catch block of the step.
stepThrows(step) == catchOf[step]

\* One optional step: it goes through, with or without its fields filled
\* (fillFormField never throws), or it throws.
FillSteps(r) ==
    \E ok \in BOOLEAN :
        /\ runs[r].pc \in OptionalSteps
        /\ runs' = [runs EXCEPT ![r] =
               [@ EXCEPT !.pc = IF ok THEN afterStep[@] ELSE stepThrows(@)]]
        /\ UNCHANGED <<now, file, ledger, res>>

\* The catch block of an optional step: the run goes on after the step.
StepCatch(r) ==
    /\ runs[r].pc \in StepCatches
    /\ runs' = [runs EXCEPT ![r] = [@ EXCEPT !.pc = afterStep[@]]]
    /\ UNCHANGED <<now, file, ledger, res>>

\* The run going on to the submit whatever handleCaptcha returned.
captchaAborts_never(solved, dry) == FALSE

\* The early return without the test of dryRun.
captchaAborts_dryToo(solved, dry) == ~solved

\* if (!captchaSolved && !dryRun) { ...; return false; }
captchaAborts(solved, dry) == ~solved /\ ~dry

\* Step 5: handleCaptcha, then the early return or the dry-run branch.
\* config.captcha.solverApiKey is read at the call.
Captcha(r) ==
    \E detectOk \in BOOLEAN, captchaExists \in BOOLEAN, solverApiKey \in BOOLEAN :
        LET solved == handleCaptcha(detectOk, captchaExists, solverApiKey)
        IN  /\ At(r, "captcha")
            /\ runs' = [runs EXCEPT ![r] =
                   IF captchaAborts(solved, @.dryRun)
                   THEN [@ EXCEPT !.pc = "finallyClose", !.captchaSolved = "false",
                                  !.completion = "return"]
                   ELSE IF @.dryRun
                   THEN [@ EXCEPT !.pc = "finallyClose", !.success = TRUE,
                                  !.captchaSolved = IF solved THEN "true" ELSE "false"]
                   ELSE [@ EXCEPT !.pc = "submit",
                                  !.captchaSolved = IF solved THEN "true" ELSE "false"]]
            /\ UNCHANGED <<now, file, ledger, res>>

\* The else branch of the test on confirmationText leaving success false.
classifyConfirmation_strict(hasKeyword) == hasKeyword

\* The test on confirmationText: 'thank', 'entered' or 'success' in the
\* text sets success = true, and so does the else branch ("Assume success").
classifyConfirmation(hasKeyword) == IF hasKeyword THEN TRUE ELSE TRUE

\* Step 6: clickButton('.xSubmit'), the settle wait and the confirmation
\* text, inside the inner try: an error leaves success false.  The control
\* may never appear (no click is issued), and after a click the JS click,
\* or reading the page text, may throw.
Submit(r) ==
    \E appears \in BOOLEAN, ok \in BOOLEAN, hasKeyword \in BOOLEAN :
        /\ At(r, "submit")
        /\ ~appears => ~ok
        /\ ~ok => ~hasKeyword
        /\ runs' = [runs EXCEPT ![r] =
               [@ EXCEPT !.pc = "finallyClose",
                         !.submitClicked = appears,
                         !.submit = IF ok THEN "clicked" ELSE "failed",
                         !.confirmation = IF ~ok THEN "none"
                                          ELSE IF hasKeyword THEN "keyword"
                                          ELSE "unclear",
                         !.success = IF ok THEN classifyConfirmation(hasKeyword)
                                     ELSE FALSE]]
        /\ UNCHANGED <<now, file, ledger, res>>

\* The outer catch: browser.pages() and the error screenshot.  When
\* browser.pages() throws, the finally block runs with that exception pending.
Catch(r) ==
    \E ok \in BOOLEAN :
        /\ At(r, "catch")
        /\ (runs[r].browser = "none") => ok
        /\ runs' = [runs EXCEPT ![r] =
               [@ EXCEPT !.pc = "finallyClose",
                         !.completion = IF ok THEN "normal" ELSE "throw"]]
        /\ UNCHANGED <<now, file, ledger, res>>

\* The close moved out of the finally block, to the end of the try block.
closesBrowser_onlyOnSuccess(b, threwStage) == b = "open" /\ threwStage = "none"

\* finally { if (browser) { await browser.close(); } ... }
closesBrowser(b, threwStage) == b = "open"

\* The first half of the finally block.  When browser.close() throws, the
\* rest of the block is skipped and the call rejects.
FinallyClose(r) ==
    \E ok \in BOOLEAN :
        /\ At(r, "finallyClose")
        /\ ~closesBrowser(runs[r].browser, runs[r].threw) => ok
        /\ runs' = [runs EXCEPT ![r] =
               LET b == IF closesBrowser(@.browser, @.threw) THEN "closed" ELSE @.browser
               IN  IF ok THEN [@ EXCEPT !.pc = "finallySave", !.browser = b]
                   ELSE [@ EXCEPT !.pc = "done", !.browser = b,
                                  !.result = "rejected", !.endedAt = now]]
        /\ UNCHANGED <<now, file, ledger, res>>

\* if (!dryRun) without the test.
savesRecord_always(dry) == TRUE

\* if (!dryRun) { await saveSubmissionRecord(...) }
savesRecord(dry) == ~dry

\* What the call settles to once the finally block is through.
settle(completion, success) ==
    CASE completion = "throw" -> "rejected"
      [] completion = "return" -> "false"
      [] OTHER -> IF success THEN "true" ELSE "false"

\* The second half of the finally block and the return.
FinallySave(r) ==
    \E readOk \in BOOLEAN, w \in WriteOutcomes :
        LET me == runs[r]
            out == saveSubmissionRecord(file, ledger, me.site, me.success,
                                        errorOf(me.success), now, readOk, w)
        IN  /\ At(r, "finallySave")
            /\ ~savesRecord(me.dryRun) => (readOk /\ w = "ok")
            /\ IF savesRecord(me.dryRun)
               THEN /\ file' = out.file
                    /\ ledger' = out.ledger
               ELSE UNCHANGED <<file, ledger>>
            /\ runs' = [runs EXCEPT ![r] =
                   [@ EXCEPT !.pc = "done",
                             !.saved = IF ~savesRecord(me.dryRun) THEN "none"
                                       ELSE IF out.wrote THEN "written" ELSE "lost",
                             !.result = settle(me.completion, me.success),
                             !.endedAt = now]]
            /\ UNCHANGED <<now, res>>

\* A run that was invoked and has not settled.
InProgress(r) == runs[r].pc \notin {"idle", "done", "exited"}

\* SIGINT: the handler logs two lines and calls process.exit(0) (without a
\* handler the signal ends the process as well).  No finally block of a run
\* in flight is executed and the locals of those runs are gone; what is
\* left of them is the browser they launched, on which close() was not
\* called.  Runs not yet invoked belong to a later start of the process.
Sigint ==
    /\ \E r \in Runs : InProgress(r)
    /\ runs' = [r \in Runs |->
                   IF InProgress(r)
                   THEN [IdleRun EXCEPT !.pc = "exited",
                                        !.site = runs[r].site,
                                        !.dryRun = runs[r].dryRun,
                                        !.rate = runs[r].rate,
                                        !.browser = runs[r].browser]
                   ELSE runs[r]]
    /\ UNCHANGED <<now, file, ledger, res>>

\* Time passes.
Tick ==
    /\ now + ClockStep <= MaxTime
    /\ now' = now + ClockStep
    /\ UNCHANGED <<file, ledger, runs, res>>

Init ==
    /\ now = 0
    /\ file = "missing"
    /\ ledger = <<>>
    /\ runs = [r \in Runs |-> IdleRun]
    /\ res = [op |-> "none"]

Next ==
    \/ \E r \in Runs, s \in Sites, d \in BOOLEAN : Invoke(r, s, d)
    \/ \E r \in Runs : Launch(r)
    \/ \E r \in Runs : Navigate(r)
    \/ \E r \in Runs : Locate(r)
    \/ \E r \in Runs : Fallback(r)
    \/ \E r \in Runs : Email(r)
    \/ \E r \in Runs : CheckUser(r)
    \/ \E r \in Runs : FillSteps(r)
    \/ \E r \in Runs : StepCatch(r)
    \/ \E r \in Runs : Captcha(r)
    \/ \E r \in Runs : Submit(r)
    \/ \E r \in Runs : Catch(r)
    \/ \E r \in Runs : FinallyClose(r)
    \/ \E r \in Runs : FinallySave(r)
    \/ Sigint
    \/ Tick

Spec == Init /\ [][Next]_vars

\* ------------------------------------------------ one run, run to its end
\* Every step of run r.
RunStep(r) ==
    \/ \E s \in Sites, d \in BOOLEAN : Invoke(r, s, d)
    \/ Launch(r)
    \/ Navigate(r)
    \/ Locate(r)
    \/ Fallback(r)
    \/ Email(r)
    \/ CheckUser(r)
    \/ FillSteps(r)
    \/ StepCatch(r)
    \/ Captcha(r)
    \/ Submit(r)
    \/ Catch(r)
    \/ FinallyClose(r)
    \/ FinallySave(r)

NextLive ==
    \/ RunStep(1)
    \/ Sigint
    \/ Tick

\* Every call of the browser driver and every timer the run awaits settles,
\* and the event loop then runs the continuation of the run.
SpecLive == Init /\ [][NextLive]_vars /\ WF_vars(RunStep(1))

\* ------------------------------------------- the runs in which nothing fails
\* The steps of a run on a page that behaves: the ledger is read and
\* written, the browser launches and closes, the form loads in its iframe,
\* every field and button of the steps is there, the frame holds no
\* challenge marker, the submit click goes through.
CleanStep(r) ==
    \/ \E s \in Sites, d \in BOOLEAN :
           /\ Invoke(r, s, d)
           /\ ~d => ((runs'[r].rate = "allowed")
                        = checkRateLimit(file, ledger, s, now, TRUE))
    \/ Launch(r) /\ runs'[r].pc = "navigate"
    \/ Navigate(r) /\ runs'[r].pc = "locate"
    \/ Locate(r) /\ runs'[r].pc = "email"
    \/ Email(r) /\ runs'[r].pc = "checkUser"
    \/ CheckUser(r) /\ runs'[r].pc = "registration"
    \/ FillSteps(r) /\ runs'[r].pc \notin StepCatches
    \/ Captcha(r) /\ runs'[r].captchaSolved = "true"
    \/ Submit(r) /\ runs'[r].submit = "clicked"
    \/ FinallyClose(r) /\ runs'[r].pc = "finallySave"
    \/ FinallySave(r) /\ (runs[r].dryRun \/ runs'[r].saved = "written")

NextClean ==
    \/ \E r \in Runs : CleanStep(r)
    \/ Tick

SpecClean == Init /\ [][NextClean]_vars

\* ---------------------------------------- the ledger and helper calls alone
\* The instants the clock of the model takes.
Times == {t \in 0..MaxTime : t % ClockStep = 0}

LedgerRecords ==
    {SubmissionRecord(s, ok, errorOf(ok), t) : s \in Sites, ok \in BOOLEAN, t \in Times}

SeqsUpTo(S, n) == UNION {[1..k -> S] : k \in 0..n}

\* A ledger of n hourly entries that ends at hour 0, the sites alternating
\* and every third entry a failure.
LongLedger(n) ==
    [i \in 1..n |->
        SubmissionRecord(IF i % 2 = 0 THEN "hgtv" ELSE "foodnetwork",
                         i % 3 # 0, errorOf(i % 3 # 0), i - n)]

\* A ledger of n entries written within one hour: a success of hgtv and
\* after it the failures of n - 1 runs of foodnetwork.
DayLedger(n) ==
    [i \in 1..n |->
        IF i = 1 THEN SubmissionRecord("hgtv", TRUE, errorOf(TRUE), ClockStep)
        ELSE SubmissionRecord("foodnetwork", FALSE, errorOf(FALSE), ClockStep)]

InitLedgers ==
    SeqsUpTo(LedgerRecords, MaxLedgerLen)
        \cup {LongLedger(n) : n \in (MaxSubmissions - 2)..MaxLongLen}
        \cup {DayLedger(n) : n \in (MaxSubmissions - 2)..MaxLongLen}

InitLedger ==
    /\ now \in Times
    /\ file \in {"missing", "valid", "corrupt"}
    /\ ledger \in (IF file = "valid" THEN InitLedgers ELSE {<<>>})
    /\ runs = [r \in Runs |-> IdleRun]
    /\ res = [op |-> "none"]

\* One call of checkRateLimit(site) on the file as it is.
RateApply(s, readOk) ==
    /\ res.op = "none"
    /\ res' = [op |-> "checkRateLimit", site |-> s, readOk |-> readOk,
               value |-> checkRateLimit(file, ledger, s, now, readOk)]
    /\ UNCHANGED <<now, file, ledger, runs>>

\* One call of saveSubmissionRecord(site, success, error) on the file as it is.
SaveApply(s, ok, readOk, w) ==
    LET out == saveSubmissionRecord(file, ledger, s, ok, errorOf(ok), now, readOk, w)
    IN  /\ res.op = "none"
        /\ res' = [op |-> "saveSubmissionRecord", site |-> s, success |-> ok,
                   readOk |-> readOk, w |-> w, oldFile |-> file, old |-> ledger]
        /\ file' = out.file
        /\ ledger' = out.ledger
        /\ UNCHANGED <<now, runs>>

\* One call of handleCaptcha(page, frame).  markerAfter is whether the marker
\* is still in the frame when the wait ends; the call does not look.
CaptchaApply(detectOk, captchaExists, solverApiKey, markerAfter) ==
    /\ res.op = "none"
    /\ ~captchaExists => ~markerAfter
    /\ res' = [op |-> "handleCaptcha", detectOk |-> detectOk,
               captchaExists |-> captchaExists, solverApiKey |-> solverApiKey,
               markerAfter |-> markerAfter,
               value |-> handleCaptcha(detectOk, captchaExists, solverApiKey),
               waited |-> handleCaptchaWait(detectOk, captchaExists, solverApiKey),
               queries |-> handleCaptchaQueries(detectOk, captchaExists, solverApiKey)]
    /\ UNCHANGED <<now, file, ledger, runs>>

\* The fallback of the form locator on one page: the catch block of
\* waitForIframe alone.
FallbackApply(pageOk, dataSrc, htmlMatch, gotoOk) ==
    /\ res.op = "none"
    /\ res' = [op |-> "locateFallback", pageOk |-> pageOk, dataSrc |-> dataSrc,
               htmlMatch |-> htmlMatch, gotoOk |-> gotoOk,
               out |-> locateFallback(pageOk, dataSrc, htmlMatch, gotoOk)]
    /\ UNCHANGED <<now, file, ledger, runs>>

\* What the frame does to one fillFormField call: the field is filled, its
\* element does not appear within the 5 s, or frame.select / frame.type
\* rejects before or after part of the value was entered.
FieldOutcomes == {"ok", "noElement", "actionFails", "actionFailsMidway"}

\* fillFormField with a catch that logs and rethrows, as clickButton has.
fillFormField_rethrows(isSelect, o) ==
    [selects |-> IF isSelect /\ o # "noElement" THEN 1 ELSE 0,
     types |-> IF ~isSelect /\ o # "noElement" THEN 1 ELSE 0,
     filled |-> CASE o = "ok" -> "full"
                  [] o = "actionFailsMidway" /\ ~isSelect -> "partial"
                  [] OTHER -> "none",
     waited |-> IF o = "ok" THEN ValidationDelayMs ELSE 0,
     outcome |-> IF o = "ok" THEN "ok" ELSE "throw"]

\* fillFormField(frame, selector, value, isSelect): the calls of
\* frame.select and frame.type it makes, what the field holds after it, the
\* pause after the fill and how it ends.  The catch block logs a warning.
fillFormField(isSelect, o) ==
    [selects |-> IF isSelect /\ o # "noElement" THEN 1 ELSE 0,
     types |-> IF ~isSelect /\ o # "noElement" THEN 1 ELSE 0,
     filled |-> CASE o = "ok" -> "full"
                  [] o = "actionFailsMidway" /\ ~isSelect -> "partial"
                  [] OTHER -> "none",
     waited |-> IF o = "ok" THEN ValidationDelayMs ELSE 0,
     outcome |-> "ok"]

\* Consecutive "await fillFormField(...)" statements of one step: the
\* calls that are made, a call that throws being the last one.
RECURSIVE fillFields(_)
fillFields(fields) ==
    IF fields = <<>> THEN <<>>
    ELSE LET first == fillFormField(fields[1].isSelect, fields[1].o)
         IN  IF first.outcome = "throw" THEN <<first>>
             ELSE <<first>> \o fillFields(Tail(fields))

\* The fields of one step with what the frame does to each.
FieldsValues ==
    SeqsUpTo([isSelect : BOOLEAN, o : FieldOutcomes], MaxFields) \ {<<>>}

\* The fills of one step on one frame.
FillApply(fields) ==
    /\ res.op = "none"
    /\ res' = [op |-> "fillFormField", fields |-> fields, out |-> fillFields(fields)]
    /\ UNCHANGED <<now, file, ledger, runs>>

\* The URL of the page of the sweepstakes, which is the main frame, and the
\* URLs of the frames a page holds besides: an iframe not loaded yet, the
\* form, and a frame of another server with the name of the form's domain
\* in its query.
MainFrameUrl == <<"https:", "/", "/", "www.hgtv.com", "/", "sweepstakes">>

FrameUrls ==
    {<<"about:blank">>,
     <<"https:", "/", "/", "xd.wayin.com", "/", "a">>,
     <<"https:", "/", "/", "ads.example.net", "/", "ref=wayin.com">>}

\* page.frames(): the main frame first, then up to two child frames.
FramesValues == {<<MainFrameUrl>> \o t : t \in SeqsUpTo(FrameUrls, 2)}

\* One pass of the loop of waitForIframe over the frames of the page.
FrameApply(frames) ==
    /\ res.op = "none"
    /\ res' = [op |-> "findFrame", frames |-> frames, out |-> findFrame(frames)]
    /\ UNCHANGED <<now, file, ledger, runs>>

\* What the frame holds for '.xActionNext' when step 3 starts: nothing, an
\* element that is not rendered, a rendered one, or one that comes up within
\* the 3 seconds after.
NextButtonStates == {"absent", "hidden", "visible", "late"}

\* The clicks step 3 (trivia) issues on '.xActionNext'.  submitHGTVEntry
\* waits up to 3 s for the element to be in the frame and calls clickButton
\* (whose JS click reaches an element that is not rendered);
\* submitFoodNetworkEntry queries the frame once and calls clickButton only
\* for an element with a bounding box.
triviaClicks(site, button) ==
    IF site = "hgtv"
    THEN IF button \in {"hidden", "visible", "late"} THEN 1 ELSE 0
    ELSE IF button = "visible" THEN 1 ELSE 0

\* Step 3 of both pipelines on the same frame.
TriviaApply(button) ==
    /\ res.op = "none"
    /\ res' = [op |-> "trivia", button |-> button,
               hgtv |-> triviaClicks("hgtv", button),
               foodnetwork |-> triviaClicks("foodnetwork", button)]
    /\ UNCHANGED <<now, file, ledger, runs>>

\* The waits the pipelines pass to clickButton.
WaitTimes == {CheckUserWaitMs, NextWaitMs, SubmitWaitMs}

\* No second attempt: the error of the native click leaves the function.
clickButton_noFallback(appears, nativeOk, jsOk, waitTime) ==
    IF ~appears
    THEN [native |-> 0, js |-> 0, waited |-> 0, outcome |-> "throw"]
    ELSE IF nativeOk
    THEN [native |-> 1, js |-> 0, waited |-> waitTime, outcome |-> "ok"]
    ELSE [native |-> 1, js |-> 0, waited |-> 0, outcome |-> "throw"]

\* clickButton(frame, selector, waitTime): the calls of frame.click and of
\* frame.evaluate it makes, the time it sleeps after the click and how it
\* ends.  appears is whether waitForSelector finds the element in its 5 s,
\* nativeOk whether frame.click resolves, jsOk whether frame.evaluate does.
clickButton(appears, nativeOk, jsOk, waitTime) ==
    IF ~appears
    THEN [native |-> 0, js |-> 0, waited |-> 0, outcome |-> "throw"]
    ELSE IF nativeOk
    THEN [native |-> 1, js |-> 0, waited |-> waitTime, outcome |-> "ok"]
    ELSE IF jsOk
    THEN [native |-> 1, js |-> 1, waited |-> waitTime, outcome |-> "ok"]
    ELSE [native |-> 1, js |-> 1, waited |-> 0, outcome |-> "throw"]

\* One call of clickButton on one frame.
ClickApply(appears, nativeOk, jsOk, waitTime) ==
    /\ res.op = "none"
    /\ res' = [op |-> "clickButton", appears |-> appears, nativeOk |-> nativeOk,
               jsOk |-> jsOk, waitTime |-> waitTime,
               out |-> clickButton(appears, nativeOk, jsOk, waitTime)]
    /\ UNCHANGED <<now, file, ledger, runs>>

NextLedger ==
    \/ \E s \in Sites, readOk \in BOOLEAN : RateApply(s, readOk)
    \/ \E s \in Sites, ok \in BOOLEAN, readOk \in BOOLEAN, w \in WriteOutcomes :
           SaveApply(s, ok, readOk, w)
    \/ \E detectOk \in BOOLEAN, captchaExists \in BOOLEAN,
          solverApiKey \in BOOLEAN, markerAfter \in BOOLEAN :
           CaptchaApply(detectOk, captchaExists, solverApiKey, markerAfter)
    \/ \E pageOk \in BOOLEAN, dataSrc \in DataSrcValues,
          htmlMatch \in HtmlMatchValues, gotoOk \in BOOLEAN :
           FallbackApply(pageOk, dataSrc, htmlMatch, gotoOk)
    \/ \E button \in NextButtonStates : TriviaApply(button)
    \/ \E frames \in FramesValues : FrameApply(frames)
    \/ \E fields \in FieldsValues : FillApply(fields)
    \/ \E appears \in BOOLEAN, nativeOk \in BOOLEAN, jsOk \in BOOLEAN,
          waitTime \in WaitTimes :
           ClickApply(appears, nativeOk, jsOk, waitTime)

SpecLedger == InitLedger /\ [][NextLedger]_vars

\* ------------------------------------------------------------------ claims
\* The Eastern calendar day d is the instants 24d + 5 .. 24d + 28.
Days == -10..10

SameETDay(a, b) ==
    \E d \in Days :
        /\ HoursPerDay * d + ETOffset <= a /\ a < HoursPerDay * (d + 1) + ETOffset
        /\ HoursPerDay * d + ETOffset <= b /\ b < HoursPerDay * (d + 1) + ETOffset

instantOf(rec) == rec.timestamp.date * HoursPerDay + rec.timestamp.hour

Max(S) == CHOOSE x \in S : \A y \in S : y <= x

Min2(a, b) == IF a <= b THEN a ELSE b

\* C1: in every reachable ledger, for each site and each Eastern calendar
\* day, at most one record has success = true for that site and day.
C1_AtMostOneSuccessPerDay ==
    \A i, j \in 1..Len(ledger) :
        (/\ i < j
         /\ ledger[i].success /\ ledger[j].success
         /\ ledger[i].site = ledger[j].site)
        => ~SameETDay(instantOf(ledger[i]), instantOf(ledger[j]))

\* C2: when a non-dry run has returned true, a non-dry run for the same site
\* that starts afterwards on the same Eastern calendar day is denied by the
\* rate check: it returns false at once, without clicking the submit control.
C2_SecondRunDenied ==
    [][\A r1, r2 \in Runs :
          (/\ runs[r2].pc = "idle" /\ runs'[r2].pc # "idle"
           /\ ~runs'[r2].dryRun
           /\ runs[r1].pc = "done" /\ runs[r1].result = "true"
           /\ ~runs[r1].dryRun
           /\ runs[r1].site = runs'[r2].site
           /\ SameETDay(runs[r1].endedAt, now))
          => (/\ runs'[r2].rate = "denied"
              /\ runs'[r2].pc = "done"
              /\ runs'[r2].result = "false"
              /\ ~runs'[r2].submitClicked)]_vars

\* C3: on a readable ledger, checkRateLimit(site) returns false exactly when
\* the record with the greatest timestamp among the successful records of
\* that site is dated on the Eastern calendar day of the current instant; it
\* returns true when that record is of another day or when there is none.
\* Failed records and records of other sites play no part.
C3_RateLimitDecision ==
    (res.op = "checkRateLimit" /\ file = "valid" /\ res.readOk) =>
        LET T == {instantOf(ledger[i]) :
                      i \in {k \in 1..Len(ledger) :
                                 ledger[k].site = res.site /\ ledger[k].success}}
        IN  res.value = ~(T # {} /\ SameETDay(Max(T), now))

\* A denial decided by the most recent of two successes of the site, stored
\* after an older one of an earlier day and before a failure and with the
\* current instant in a later UTC day than the record.
C3_Witness ==
    /\ res.op = "checkRateLimit" /\ file = "valid" /\ res.readOk
    /\ res.value = FALSE
    /\ Len(ledger) = 2
    /\ ledger[1].site = res.site /\ ledger[1].success
    /\ ledger[2].site = res.site /\ ledger[2].success
    /\ instantOf(ledger[1]) > instantOf(ledger[2])
    /\ ~SameETDay(instantOf(ledger[1]), instantOf(ledger[2]))
    /\ instantOf(ledger[1]) < now

\* C4: a run invoked with dryRun = true leaves the ledger file as it is at
\* every step it takes: completing, through a thrown stage, and after the
\* challenge handler returned false.
C4_DryRunLeavesLedger ==
    [][\A r \in Runs :
          (runs'[r].dryRun /\ runs'[r] # runs[r]) => UNCHANGED <<file, ledger>>]_vars

\* A dry run whose challenge handler returned false has returned.
C4_Witness ==
    \E r \in Runs :
        /\ runs[r].dryRun /\ runs[r].pc = "done"
        /\ runs[r].captchaSolved = "false"
        /\ runs[r].result = "true"

\* C5: a non-dry run the rate limiter denies returns false in the same step,
\* with no browser launched, and that step leaves the ledger file as it is.
C5_DeniedRunDoesNothing ==
    [][\A r \in Runs :
          (runs'[r].rate = "denied") =>
              /\ runs'[r].pc = "done"
              /\ runs'[r].result = "false"
              /\ runs'[r].browser = "none"
              /\ runs'[r].saved = "none"
              /\ (runs[r].pc = "idle" => UNCHANGED <<file, ledger>>)]_vars

\* A run was denied.
C5_Witness ==
    \E r \in Runs : runs[r].rate = "denied" /\ runs[r].pc = "done"

\* The record a saveSubmissionRecord call of SpecLedger appends.
newRecord == SubmissionRecord(res.site, res.success, errorOf(res.success), now)

lastOf(seq, n) == [i \in 1..n |-> seq[Len(seq) - n + i]]

C7_FailOpen ==
    /\ (/\ res.op = "checkRateLimit"
        /\ (file = "missing" \/ file = "corrupt" \/ ~res.readOk))
       => res.value = TRUE
    /\ (res.op = "saveSubmissionRecord" /\ res.oldFile = "missing") =>
          /\ res.w = "ok" => (file = "valid" /\ ledger = <<newRecord>>)
          /\ res.w = "openFails" => (file = "missing" /\ ledger = <<>>)

\* checkRateLimit allowed a run on a file that does not parse.
C7_Witness ==
    /\ res.op = "checkRateLimit"
    /\ file = "corrupt" /\ res.readOk
    /\ res.value = TRUE

\* C8: a run that launched a browser has called browser.close() by the time
\* it settles, whichever way it left the try block.
C8_BrowserClosed ==
    \A r \in Runs : runs[r].pc = "done" => runs[r].browser # "open"

\* A run settled after a stage threw with the browser launched.
C8_Witness ==
    \E r \in Runs :
        /\ runs[r].pc = "done" /\ runs[r].browser = "closed"
        /\ runs[r].threw = "email"

\* C9: in a non-dry run that passed the rate check, an exception thrown by a
\* stage (launch, navigation, form location, the check-user click, the
\* submit click) ends the run with outcome false and a success = false
\* record of its site appended to the ledger.
C9_StageFailureRecorded ==
    \A r \in Runs :
        (/\ runs[r].pc = "done" /\ ~runs[r].dryRun /\ runs[r].rate = "allowed"
         /\ (runs[r].threw # "none" \/ runs[r].submit = "failed"))
        => (/\ runs[r].result = "false"
            /\ runs[r].saved = "written"
            /\ ~runs[r].success)

\* C10: in a non-dry run whose challenge handler returned false, the submit
\* control is never clicked, the run returns false and a success = false
\* record is appended to the ledger.
C10_ChallengeUnresolved ==
    \A r \in Runs :
        (~runs[r].dryRun /\ runs[r].captchaSolved = "false") =>
            /\ ~runs[r].submitClicked
            /\ runs[r].pc # "submit"
            /\ runs[r].pc = "done" =>
                   (/\ runs[r].result = "false"
                    /\ runs[r].saved = "written"
                    /\ ~runs[r].success)

\* C11: in a non-dry run that reached the submit stage, when the click, the
\* settle wait and the reading of the page text went through, the run
\* returns true, with a success keyword in the text and without one; when
\* the sequence threw, the run returns false and a success = false record
\* is appended to the ledger.
C11_SubmitOutcome ==
    \A r \in Runs :
        (runs[r].pc = "done" /\ ~runs[r].dryRun /\ runs[r].submit # "none") =>
            /\ runs[r].submit = "clicked" =>
                   (/\ runs[r].confirmation \in {"keyword", "unclear"}
                    /\ runs[r].success
                    /\ runs[r].result = "true")
            /\ runs[r].submit = "failed" =>
                   (/\ ~runs[r].success
                    /\ runs[r].result = "false"
                    /\ runs[r].saved = "written")

\* The load-bearing stage a run failed at, if any.
LoadBearing == {"locate", "fallback", "email"}

failedStage(run) ==
    IF run.threw \in LoadBearing THEN run.threw
    ELSE IF run.submit = "failed" THEN "submit"
    ELSE "none"

\* C12: when a non-dry run failed at a load-bearing stage (locating the
\* form, the email entry, the submit), the record its saveSubmissionRecord
\* call writes carries the message of that stage's error in its error field.
C12_RecordCarriesMessage ==
    [][\A r \in Runs :
          (/\ runs[r].pc = "finallySave" /\ runs'[r].pc = "done"
           /\ ~runs[r].dryRun
           /\ failedStage(runs[r]) # "none"
           /\ runs'[r].saved = "written")
          => (/\ Len(ledger') > 0
              /\ ~ledger'[Len(ledger')].success
              /\ ledger'[Len(ledger')].error = errorMessage(failedStage(runs[r])))]_vars

\* C13: a dry run goes through the stages of a real run up to the
\* challenge, the rate check included, in their order; it never clicks the
\* submit control, and once the challenge handler has returned the run
\* returns true.
C13_DryRunStages ==
    \A r \in Runs :
        (runs[r].dryRun /\ runs[r].pc # "idle") =>
            /\ runs[r].rate \in {"allowed", "denied"}
            /\ ~runs[r].submitClicked
            /\ runs[r].submit = "none"
            /\ (runs[r].pc = "done" /\ runs[r].captchaSolved # "none") =>
                   runs[r].result = "true"

\* C14: handleCaptcha returns true without waiting when the frame holds no
\* challenge marker; it returns false when there is a marker and a solver
\* key is configured; with a marker and no solver key it waits 60 seconds
\* and returns true whether or not the marker is still there, having
\* queried the frame once.
C14_ChallengeHandler ==
    (res.op = "handleCaptcha" /\ res.detectOk) =>
        /\ ~res.captchaExists => (res.value = TRUE /\ res.waited = 0)
        /\ (res.captchaExists /\ res.solverApiKey) => res.value = FALSE
        /\ (res.captchaExists /\ ~res.solverApiKey) =>
               (/\ res.value = TRUE
                /\ res.waited = 60000
                /\ res.queries = 1)

\* The handler waited and returned true with the marker still in the frame.
C14_Witness ==
    /\ res.op = "handleCaptcha" /\ res.detectOk
    /\ res.captchaExists /\ ~res.solverApiKey /\ res.markerAfter
    /\ res.value = TRUE /\ res.waited = 60000

\* The positions of a run from step 2 to the challenge.
StepPositions == OptionalSteps \cup StepCatches

\* C15: an exception inside an optional step (the name fields, the Next
\* click, the trivia skip, the address block) never aborts the run: as long
\* as the process is not stopped, every step a run takes from step 2 on
\* leads to the next optional step, to the catch block of the step, or to
\* the challenge, and the exception that reaches the outer catch of a run
\* is never one of an optional step.
C15_OptionalStepsIsolated ==
    [][\A r \in Runs :
          /\ (/\ runs[r].pc \in StepPositions
              /\ runs'[r] # runs[r]
              /\ runs'[r].pc # "exited")
             => (/\ runs'[r].pc \in StepPositions \cup {"captcha"}
                 /\ runs'[r].pc = afterStep[runs[r].pc]
                        \/ (runs[r].pc \in OptionalSteps
                            /\ runs'[r].pc = catchOf[runs[r].pc])
                 /\ runs'[r].threw = "none"
                 /\ runs'[r].completion = "normal")
          /\ runs'[r].threw \notin StepPositions]_vars

\* The address block threw and the run is in the catch block of the step,
\* on its way to the challenge.
C15_Witness ==
    \E r \in Runs : runs[r].pc = "addressCatch" /\ runs[r].threw = "none"

\* C16: when the email field could not be found or filled, the run aborts
\* before the later steps: from the check-user click with the field left
\* empty the run goes to the outer catch, never on to step 2.
C16_EmailFailureAborts ==
    [][\A r \in Runs :
          (runs[r].pc = "checkUserNoEmail" /\ runs'[r] # runs[r])
          => runs'[r].pc \in {"catch", "exited"}]_vars

\* C17: the fallback is entered only from the primary path that failed, and
\* once per run: the form is located once, and a fallback that
\* fails sends the run to the outer catch (never back to the primary path);
\* a run that failed because no backing URL was found has no form session,
\* has filled no field, has clicked nothing and has not submitted.
C17_FallbackOnce ==
    [][\A r \in Runs :
          /\ (runs'[r].pc = "fallback" /\ runs[r].pc # "fallback")
                 => runs[r].pc = "locate"
          /\ (runs'[r].pc = "locate" /\ runs[r].pc # "locate")
                 => runs[r].pc = "navigate"
          /\ (runs[r].pc = "fallback" /\ runs'[r] # runs[r])
                 => runs'[r].pc \in {"email", "catch", "exited"}
          /\ (runs'[r].threw = "locate")
                 => (/\ runs[r].pc \in {"fallback", "catch", "finallyClose",
                                         "finallySave", "done"}
                     /\ runs'[r].pc \in {"catch", "finallyClose", "finallySave", "done"}
                     /\ runs'[r].session = "none"
                     /\ runs'[r].captchaSolved = "none"
                     /\ runs'[r].submit = "none"
                     /\ ~runs'[r].submitClicked
                     /\ ~runs'[r].success)]_vars

\* A run whose fallback found no backing URL has settled.
C17_Witness ==
    \E r \in Runs :
        /\ runs[r].pc = "done" /\ runs[r].threw = "locate"
        /\ runs[r].browser = "closed"

\* The text from which the fallback takes the URL: the attribute when it
\* holds one, else the match of the markup.
fallbackSource ==
    IF ~res.dataSrc.isNull /\ Len(res.dataSrc.text) > 0
    THEN res.dataSrc ELSE res.htmlMatch

\* C18: when the primary path failed and a deferred-source URL is read
\* from the page (the data-src attribute of the iframe element, or only when
\* that holds none the match of the page markup), the page is sent to that URL, a
\* leading '//' made 'https://' and any other URL as it is, and when the
\* navigation went through the session of the later steps is the main frame.
C18_FallbackNavigation ==
    (res.op = "locateFallback" /\ res.pageOk /\ ~fallbackSource.isNull) =>
        LET src == fallbackSource.text
            url == res.out.goto
        IN  /\ ~url.isNull
            /\ IF Len(src) >= 2 /\ src[1] = "/" /\ src[2] = "/"
               THEN /\ Len(url.text) = Len(src) + 1
                    /\ url.text[1] = "https:"
                    /\ \A i \in 1..Len(src) : url.text[i + 1] = src[i]
               ELSE url.text = src
            /\ res.gotoOk => (res.out.iframe = "main" /\ res.out.threw = "none")
            /\ ~res.gotoOk => (res.out.iframe = "none" /\ res.out.threw = "fallback")

\* The attribute was empty, the markup held a protocol-relative URL, and
\* the page went to it over https.
C18_Witness ==
    /\ res.op = "locateFallback" /\ res.pageOk
    /\ ~res.dataSrc.isNull /\ res.dataSrc.text = <<>>
    /\ ~res.htmlMatch.isNull
    /\ res.gotoOk
    /\ res.out.goto.text = <<"https:", "/", "/", "xd.wayin.com", "/", "b">>
    /\ res.out.iframe = "main"

\* The record the saveSubmissionRecord call of a settled run was to append.
recordOf(run) ==
    [site |-> run.site, success |-> run.success,
     error |-> IF run.success THEN "null" ELSE "See logs for details",
     timestamp |-> [date |-> run.endedAt \div 24, hour |-> run.endedAt % 24]]

\* C19: when two runs for different sites have both called
\* saveSubmissionRecord, whatever the order of their steps, the ledger holds
\* the record of each of them.
C19_NoLostUpdate ==
    \A r1, r2 \in Runs :
        (/\ r1 < r2
         /\ runs[r1].pc = "done" /\ runs[r2].pc = "done"
         /\ runs[r1].saved # "none" /\ runs[r2].saved # "none"
         /\ runs[r1].site # runs[r2].site)
        => \E i, j \in 1..Len(ledger) :
               /\ i # j
               /\ ledger[i] = recordOf(runs[r1])
               /\ ledger[j] = recordOf(runs[r2])

\* C20: when the process is stopped by a signal while a run is in flight,
\* the run is aborted and browser.close() has been called on the browser it
\* launched by the time the process has ended.
C20_CancellationReleases ==
    \A r \in Runs : runs[r].pc = "exited" => runs[r].browser # "open"

\* C21: a non-dry run the rate limiter allows, on a page where the form
\* loads in its iframe, every step's element is there, there is no challenge
\* and nothing throws, returns true, and the ledger gains one record through
\* it: of its site, with success = true, stamped with the instant of the
\* return, which is not before the start as the clock does not run
\* backwards; no other step of the run touches the ledger.
C21_EndToEnd ==
    [][/\ now' >= now
       /\ \A r \in Runs :
             (~runs'[r].dryRun /\ runs'[r].rate = "allowed" /\ runs'[r] # runs[r]) =>
                 IF runs'[r].pc = "done"
                 THEN /\ runs'[r].result = "true"
                      /\ runs'[r].session = "frame"
                      /\ runs'[r].endedAt = now
                      /\ file' = "valid"
                      /\ Len(ledger') = Len(ledger) + 1
                      /\ \A i \in 1..Len(ledger) : ledger'[i] = ledger[i]
                      /\ ledger'[Len(ledger')] =
                             [site |-> runs'[r].site, success |-> TRUE, error |-> "null",
                              timestamp |-> [date |-> now \div 24, hour |-> now % 24]]
                 ELSE /\ ledger' = ledger
                      /\ file' = file]_vars

\* A run returned true on a confirmation text without a keyword, and its
\* record is the last of the ledger.
C21_Witness ==
    \E r \in Runs :
        /\ runs[r].pc = "done" /\ ~runs[r].dryRun
        /\ runs[r].result = "true" /\ runs[r].confirmation = "unclear"
        /\ Len(ledger) > 0
        /\ ledger[Len(ledger)].site = runs[r].site
        /\ ledger[Len(ledger)].success
        /\ instantOf(ledger[Len(ledger)]) = runs[r].endedAt

\* The instants of the successes of the site of the call that are not
\* later than the current instant.
pastSuccesses ==
    {instantOf(ledger[i]) :
         i \in {k \in 1..Len(ledger) :
                    /\ ledger[k].site = res.site /\ ledger[k].success
                    /\ instantOf(ledger[k]) <= now}}

\* The first instant of the Eastern calendar day of the current instant.
dayStart == 24 * ((now - 5) \div 24) + 5

noFutureRecord == \A i \in 1..Len(ledger) : instantOf(ledger[i]) <= now

C23_RunTerminates ==
    \A r \in Runs :
        (runs[r].pc # "idle") ~> (runs[r].pc \in {"done", "exited"})

\* The polling loop of waitForIframe has used up its time.
C23_Witness ==
    \E r \in Runs : runs[r].pc = "locate" /\ runs[r].polls = MaxPolls

\* C24: the two pipelines are one pipeline up to the site: on the same page
\* behaviour they issue the same clicks; in step 3, the same clicks on the
\* next-step control.
C24_SamePipeline ==
    res.op = "trivia" => res.hgtv = res.foodnetwork

\* The stage a position belongs to: 0 before the rate check, 1 Navigate,
\* 2 Locate, 3 FillSteps, 4 Challenge, 5 Submit, 6 cleanup and Record, 7 END.
stageRank(pc) ==
    CASE pc = "idle" -> 0
      [] pc \in {"launch", "navigate"} -> 1
      [] pc \in {"locate", "fallback"} -> 2
      [] pc \in {"email", "checkUser", "checkUserNoEmail"} \cup StepPositions -> 3
      [] pc = "captcha" -> 4
      [] pc = "submit" -> 5
      [] pc \in {"catch", "finallyClose", "finallySave"} -> 6
      [] OTHER -> 7

\* C25: the stages of a run come in the order RateCheck, Navigate, Locate,
\* FillSteps, Challenge, Submit, Record, and a stage that was left is not
\* entered again.  The submit control is clicked in one step of the run,
\* the one that leaves the submit stage, and only in a run that is not a dry
\* run, that the rate check allowed and whose challenge handler returned true.
C25_StageOrder ==
    [][\A r \in Runs :
          /\ stageRank(runs'[r].pc) >= stageRank(runs[r].pc)
          /\ (runs'[r].pc = "launch" /\ runs[r].pc # "launch") =>
                 (runs[r].pc = "idle" /\ runs'[r].rate \in {"allowed", "skipped"})
          /\ (runs'[r].submitClicked /\ ~runs[r].submitClicked) =>
                 (/\ runs[r].pc = "submit" /\ runs'[r].pc = "finallyClose"
                  /\ ~runs[r].dryRun
                  /\ runs[r].rate = "allowed"
                  /\ runs[r].captchaSolved = "true")
          /\ (runs'[r].saved # "none" /\ runs[r].saved = "none") =>
                 (runs[r].pc = "finallySave" /\ runs'[r].pc = "done")]_vars

\* A run that clicked the submit control has settled.
C25_Witness ==
    \E r \in Runs :
        /\ runs[r].pc = "done" /\ runs[r].submitClicked
        /\ runs[r].saved = "written"

\* C26: on a readable ledger none of whose records is later than the
\* current instant, checkRateLimit(site) returns false exactly when some
\* record of the ledger is a success of the site dated on the current
\* Eastern calendar day: looking at the most recent success only gives the
\* answer that looking at all of them would give.
C26_AnySuccessToday ==
    (/\ res.op = "checkRateLimit" /\ file = "valid" /\ res.readOk
     /\ \A i \in 1..Len(ledger) : instantOf(ledger[i]) <= now)
    => (res.value = FALSE <=>
           \E i \in 1..Len(ledger) :
               /\ ledger[i].site = res.site
               /\ ledger[i].success
               /\ SameETDay(instantOf(ledger[i]), now))

\* A denial on a ledger whose first success of the site is of an earlier
\* day and whose second is of today.
C26_Witness ==
    /\ res.op = "checkRateLimit" /\ file = "valid" /\ res.readOk
    /\ res.value = FALSE
    /\ Len(ledger) = 2
    /\ ledger[1].site = res.site /\ ledger[1].success
    /\ ledger[2].site = res.site /\ ledger[2].success
    /\ ~SameETDay(instantOf(ledger[1]), now)
    /\ SameETDay(instantOf(ledger[2]), now)
    /\ instantOf(ledger[2]) <= now

\* C27: clickButton attempts no click and throws when the element does
\* not appear within the wait; when the element appears and the native click
\* throws it attempts the programmatic click exactly once; after a click that
\* did not throw it waits waitTime and returns normally.
C27_ClickButton ==
    res.op = "clickButton" =>
        /\ ~res.appears =>
               /\ res.out.native = 0 /\ res.out.js = 0
               /\ res.out.outcome = "throw"
        /\ (res.appears /\ ~res.nativeOk) =>
               /\ res.out.native = 1 /\ res.out.js = 1
        /\ (res.appears /\ res.nativeOk) =>
               /\ res.out.native = 1 /\ res.out.js = 0
        /\ (res.appears /\ (res.nativeOk \/ res.jsOk)) =>
               /\ res.out.waited = res.waitTime
               /\ res.out.outcome = "ok"

\* The native click threw and the programmatic one went through.
C27_Witness ==
    /\ res.op = "clickButton"
    /\ res.appears /\ ~res.nativeOk /\ res.jsOk
    /\ res.out.js = 1
    /\ res.out.outcome = "ok"
    /\ res.out.waited = SubmitWaitMs

\* C28: a non-dry run that passed the rate check and returns a boolean has
\* appended exactly one record to the ledger: the record is appended in the
\* step in which the run returns, after the browser of the run was closed,
\* its success field is the boolean returned, and no other step of a run
\* touches the ledger.
C28_OneRecordPerRun ==
    [][/\ \A r \in Runs :
            (/\ runs[r].pc # "done" /\ runs'[r].pc = "done"
             /\ ~runs'[r].dryRun /\ runs'[r].rate = "allowed"
             /\ runs'[r].result \in {"true", "false"})
            => (/\ runs[r].pc = "finallySave"
                /\ runs[r].browser # "open"
                /\ file' = "valid"
                /\ Len(ledger') >= 1
                /\ ledger'[Len(ledger')] =
                       SubmissionRecord(runs[r].site, runs'[r].result = "true",
                                        errorOf(runs'[r].result = "true"), now)
                /\ Len(ledger') = Min2(Len(ledger) + 1, MaxSubmissions))
       /\ (ledger' # ledger \/ file' # file) =>
              \E r \in Runs : runs[r].pc = "finallySave" /\ runs'[r].pc = "done"]_vars

\* C29: a call of submitHGTVEntry or submitFoodNetworkEntry that has
\* settled has resolved to a boolean: it never rejects, whichever browser
\* operation failed.
C29_NeverRejects ==
    \A r \in Runs :
        runs[r].pc = "done" => runs[r].result \in {"true", "false"}

\* C30: a success record of the current Eastern calendar day is not
\* evicted by the records other runs append: after saveSubmissionRecord has
\* written the ledger, every success of today the ledger held is still in
\* it, and checkRateLimit still denies the site of that record.
C30_TodaySuccessKept ==
    (/\ res.op = "saveSubmissionRecord"
     /\ res.oldFile = "valid" /\ res.readOk /\ res.w = "ok")
    => \A i \in 1..Len(res.old) :
           (/\ res.old[i].success
            /\ SameETDay(instantOf(res.old[i]), now)
            /\ ~checkRateLimit("valid", res.old, res.old[i].site, now, TRUE))
           => (/\ \E j \in 1..Len(ledger) : ledger[j] = res.old[i]
               /\ ~checkRateLimit(file, ledger, res.old[i].site, now, TRUE))

\* C31: when saveSubmissionRecord fails to read, to parse or to write the
\* ledger it returns normally and the persisted ledger is exactly what it
\* was before the call: no partial or truncated document is left.
C31_FailedSaveLeavesLedger ==
    (/\ res.op = "saveSubmissionRecord"
     /\ \/ res.oldFile = "corrupt"
        \/ (res.oldFile = "valid" /\ ~res.readOk)
        \/ res.w # "ok")
    => (file = res.oldFile /\ ledger = res.old)

\* C32: handleCaptcha does not throw: when the query for the challenge
\* marker raises an error it returns false.  A false return makes a non-dry
\* run leave the try block by the early return, with the submit control
\* never clicked; a dry run goes on as after a true return: it sets success
\* and ends the try block normally, and the call yields true (it rejects only
\* where it would after a true return: when browser.close() rejects).
C32_ChallengeErrorSwallowed ==
    /\ (\A captchaExists \in BOOLEAN, solverApiKey \in BOOLEAN :
             handleCaptcha(FALSE, captchaExists, solverApiKey) = FALSE)
    /\   (\A r \in Runs :
             runs[r].captchaSolved = "false" =>
                 /\ runs[r].pc \in {"finallyClose", "finallySave", "done"}
                 /\ ~runs[r].submitClicked
                 /\ runs[r].submit = "none"
                 /\ ~runs[r].dryRun =>
                        (/\ runs[r].completion = "return"
                         /\ ~runs[r].success
                         /\ runs[r].result # "true")
                 /\ runs[r].dryRun =>
                        (/\ runs[r].completion = "normal"
                         /\ runs[r].success
                         /\ runs[r].result # "false"
                         /\ runs[r].result = "rejected" => runs[r].browser = "closed"))

\* A dry run whose handleCaptcha returned false has returned true, and a
\* non-dry one has returned false.
C32_Witness ==
    /\ runs[1].pc = "done" /\ runs[1].dryRun
    /\ runs[1].captchaSolved = "false" /\ runs[1].result = "true"
    /\ runs[2].pc = "done" /\ ~runs[2].dryRun
    /\ runs[2].captchaSolved = "false" /\ runs[2].result = "false"

\* The host of an absolute URL.
hostOf(t) == IF Len(t) >= 4 /\ t[2] = "/" /\ t[3] = "/" THEN t[4] ELSE ""

\* The URL is on the domain that hosts the form.
onFormDomain(t) == hostOf(t) \in {"xd.wayin.com", "wayin.com"}

\* C33: the session the fill steps type into is on the form-hosting
\* domain: the frame waitForIframe returns has a URL on that domain, and the
\* main frame the fallback hands over was navigated to a URL on that domain.
C33_SessionOnFormDomain ==
    /\ (res.op = "findFrame" /\ ~res.out.isNull) => onFormDomain(res.out.text)
    /\ (res.op = "locateFallback" /\ res.out.iframe = "main") =>
           onFormDomain(res.out.goto.text)

\* C34: fillFormField does not throw: when the element of the field does
\* not appear within the wait, or selecting or typing fails, the call returns
\* normally with the field not filled, and the step goes on to its next
\* field: every fill of the step is called.
C34_FillNeverThrows ==
    res.op = "fillFormField" =>
        /\ Len(res.out) = Len(res.fields)
        /\ \A i \in 1..Len(res.out) :
               /\ res.out[i].outcome = "ok"
               /\ res.fields[i].o # "ok" =>
                      (res.out[i].filled # "full" /\ res.out[i].waited = 0)
               /\ res.fields[i].o = "noElement" =>
                      (res.out[i].selects = 0 /\ res.out[i].types = 0)
               /\ res.fields[i].o = "ok" =>
                      (res.out[i].filled = "full"
                       /\ res.out[i].waited = ValidationDelayMs)

\* The element of the first field did not appear and the second field was
\* filled.
C34_Witness ==
    /\ res.op = "fillFormField"
    /\ Len(res.fields) = 2
    /\ res.fields[1].o = "noElement" /\ res.fields[2].o = "ok"
    /\ Len(res.out) = 2
    /\ res.out[1].filled = "none" /\ res.out[1].outcome = "ok"
    /\ res.out[2].filled = "full"

====
